---- MODULE Spec2Model ----
(***************************************************************************)
(* External-file synchronisation of script.js: the handle store            *)
(* (IndexedDB), the permission gate, the workbook codec (XLSX), the        *)
(* connect flow, the append flow and the startup status check.             *)
(*                                                                         *)
(* Every async function is a task that advances one await at a time; what  *)
(* runs synchronously between two awaits is one step.  The browser         *)
(* (picker, permission prompts, IndexedDB, file reads and writes) is the   *)
(* environment: each of its answers is a nondeterministic choice among     *)
(* the outcomes the platform can produce, thrown errors included.          *)
(***************************************************************************)
EXTENDS Integers, Sequences, FiniteSets, TLC

\* ------------------------------------------------------------------ bounds

\* Number of appendCustomerToExcel calls a behaviour may start.
MaxAppends == 2

\* ------------------------------------------------------- program constants

EXCEL_SHEET_NAME == "CustomerData"
EXCEL_HEADERS == <<"Date", "Name", "WhatsApp Number", "Address", "Total Volume (ft^3)">>

\* ------------------------------------------------------------ environment

\* The files the user can choose in the save-file picker: one that exists
\* already and a new one the picker creates under the suggested name.  A
\* handle is identified with the file it refers to, and handle.name is that
\* name.
ExistingFile == "existing.xlsx"
NewFile == "customer_data.xlsx"
Files == {ExistingFile, NewFile}

\* `null`: no handle.
None == "none"

\* The async calls that can be in flight.
Tasks == {1, 2}

\* error.name of a thrown error: connect's catch tells AbortError apart.
ErrNames == {"AbortError", "OtherError"}

\* PermissionState values of the File System Access API.
PermStates == {"granted", "prompt", "denied"}

\* The records handed to appendCustomerToExcel.  totalVolume is a finite
\* non-negative number, held here in units of 1/10000 ft^3.
Entries ==
    { [date |-> "1/1/2024, 10:00:00 AM", name |-> "Alice", whatsapp |-> "1234567890",
       address |-> "12 Main St", totalVolume |-> 123450],
      [date |-> "1/2/2024, 9:30:00 AM", name |-> "Customer", whatsapp |-> "Not provided",
       address |-> "Not provided", totalVolume |-> 9996] }

\* ------------------------------------------------------------------ codec

\* Number.prototype.toFixed(3): decimal text with exactly three fractional
\* digits, rounded to the nearest thousandth (v in units of 1/10000).
Pad3(n) ==
    IF n < 10 THEN "00" \o ToString(n)
    ELSE IF n < 100 THEN "0" \o ToString(n)
    ELSE ToString(n)

toFixed3(v) ==
    LET q == (v + 5) \div 10
    IN  ToString(q \div 1000) \o "." \o Pad3(q % 1000)

\* The row appendCustomerToExcel builds from an entry.
EntryRowSwapped(entry) ==
    <<entry.date, entry.whatsapp, entry.name, entry.address, toFixed3(entry.totalVolume)>>

EntryRow(entry) ==
    <<entry.date, entry.name, entry.whatsapp, entry.address, toFixed3(entry.totalVolume)>>

\* A worksheet is the sequence of its rows, row 1 first; a row with no
\* cells is <<>>.
BlankRow == <<>>

\* A workbook: SheetNames in order, Sheets by name.
NoSheets == [n \in {} |-> <<>>]

book_new == [SheetNames |-> <<>>, Sheets |-> NoSheets]

\* XLSX.utils.aoa_to_sheet(rows)
aoa_to_sheet(rows) == rows

\* XLSX.utils.book_append_sheet(workbook, sheet, name)
book_append_sheet(workbook, sheet, name) ==
    [SheetNames |-> Append(workbook.SheetNames, name),
     Sheets |-> [n \in (DOMAIN workbook.Sheets) \cup {name} |->
                    IF n = name THEN sheet ELSE workbook.Sheets[n]]]

\* XLSX.utils.sheet_to_json(sheet, {header: 1, blankrows: false}): the rows
\* as arrays, blank rows left out.
IsNotBlank(row) == row # BlankRow

sheet_to_json(sheet) == SelectSeq(sheet, IsNotBlank)

\* XLSX.utils.sheet_add_aoa(sheet, [row], {origin: "A1"}): the row's cells
\* are written over row 1.
sheet_add_aoa_A1(sheet, row) ==
    IF Len(sheet) = 0 THEN <<row>> ELSE [sheet EXCEPT ![1] = row]

\* XLSX.utils.sheet_add_aoa(sheet, [row], {origin: -1}): the row is written
\* below the last row of the sheet's range.
sheet_add_aoa_end(sheet, row) == Append(sheet, row)

createWorkbookWithHeaders ==
    book_append_sheet(book_new, aoa_to_sheet(<<EXCEL_HEADERS>>), EXCEL_SHEET_NAME)

appendRowToSheetAlwaysHeader(sheet, row) ==
    sheet_add_aoa_end(sheet_add_aoa_end(sheet, EXCEL_HEADERS), row)

appendRowToSheetNoHeader(sheet, row) == sheet_add_aoa_end(sheet, row)

appendRowToSheet(sheet, row) ==
    LET allRows == sheet_to_json(sheet)
        withHeader == IF Len(allRows) = 0
                      THEN sheet_add_aoa_A1(sheet, EXCEL_HEADERS)
                      ELSE sheet
    IN  sheet_add_aoa_end(withHeader, row)

\* The bytes of a file: nothing, bytes that are no workbook, or the bytes
\* XLSX.write produces for a workbook.
EmptyBytes == [kind |-> "empty"]
GarbageBytes == [kind |-> "garbage"]

\* XLSX.write(workbook, {bookType: "xlsx", type: "array"})
XLSX_write(workbook) == [kind |-> "xlsx", wb |-> workbook]

\* file.size
FileSize(bytes) == IF bytes.kind = "empty" THEN 0 ELSE 1

\* XLSX.read(arrayBuffer, {type: "array"}): the workbook held in the bytes;
\* bytes that are no workbook make it throw.
XLSX_read_lenient(bytes) ==
    IF bytes.kind = "xlsx" THEN [ok |-> TRUE, wb |-> bytes.wb]
    ELSE [ok |-> TRUE, wb |-> book_new]

XLSX_read(bytes) ==
    IF bytes.kind = "xlsx" THEN [ok |-> TRUE, wb |-> bytes.wb]
    ELSE [ok |-> FALSE, wb |-> book_new]

\* Lines 186-199 of appendCustomerToExcel: find or create the sheet, then
\* append the entry's row.
WithEntry(workbook, entry) ==
    LET has == EXCEL_SHEET_NAME \in DOMAIN workbook.Sheets
        wb1 == IF has THEN workbook
               ELSE [SheetNames |-> Append(workbook.SheetNames, EXCEL_SHEET_NAME),
                     Sheets |-> [n \in (DOMAIN workbook.Sheets) \cup {EXCEL_SHEET_NAME} |->
                                    IF n = EXCEL_SHEET_NAME
                                    THEN aoa_to_sheet(<<EXCEL_HEADERS>>)
                                    ELSE workbook.Sheets[n]]]
        sheet == appendRowToSheet(wb1.Sheets[EXCEL_SHEET_NAME], EntryRow(entry))
    IN  [wb1 EXCEPT !.Sheets[EXCEL_SHEET_NAME] = sheet]

\* What an existing file may hold before this program first touches it:
\* nothing, bytes that are no workbook, a workbook without the CustomerData
\* sheet, a workbook whose CustomerData sheet has no rows.  A new file is
\* empty.
ForeignWorkbook == book_append_sheet(book_new, aoa_to_sheet(<<<<"x">>>>), "Sheet1")
ZeroRowWorkbook == book_append_sheet(book_new, aoa_to_sheet(<<>>), EXCEL_SHEET_NAME)

OriginContents ==
    {EmptyBytes, GarbageBytes, XLSX_write(ForeignWorkbook), XLSX_write(ZeroRowWorkbook)}

\* -------------------------------------------------------- local history

\* The stored text: JSON for an array of items, JSON for something else, or
\* text that is not JSON.
JSON_stringify(items) == [json |-> "array", items |-> items]
ObjectText == [json |-> "object", items |-> <<>>]
CorruptText == [json |-> "invalid", items |-> <<>>]

\* An array item that lacks the fields of a customer record.
ForeignItem == [volume |-> 5]

\* JSON.parse(localStorage.getItem(CUSTOMER_HISTORY_KEY) || "[]"): throws a
\* SyntaxError on text that is not JSON.
JSON_parse(text) ==
    IF text.json = "invalid" THEN [ok |-> FALSE, value |-> text]
    ELSE [ok |-> TRUE, value |-> text]

\* The item has the fields of a customer record, with a finite totalVolume.
IsCustomerItem(item) ==
    /\ DOMAIN item = {"date", "name", "whatsapp", "address", "totalVolume"}
    /\ item.totalVolume \in Nat

\* getCustomerHistory after the parse: [] for a value that is not an array,
\* otherwise the items that are customer records.
getCustomerHistory(raw) ==
    IF raw.json # "array" THEN <<>> ELSE SelectSeq(raw.items, IsCustomerItem)

\* What the page may find stored when it is loaded; nothing stored reads as
\* "[]".
StoredHistories ==
    {JSON_stringify(<<>>), CorruptText, ObjectText, JSON_stringify(<<ForeignItem>>)}

\* ----------------------------------------------------------------- status

\* #excelStatus: the text after "Excel: " and the error class.  The file
\* name of "Connected (...)" is kept apart; the time of "Updated at ..." is
\* left out.
Status(text, name, isError) == [text |-> text, name |-> name, isError |-> isError]

StInitial == Status("", None, FALSE)
StUnsupportedConnect == Status("Not supported in this browser. Use latest Chrome/Edge.", None, TRUE)
StNoLibrary == Status("Excel library not loaded. Check internet and reload.", None, TRUE)
StConnectDenied == Status("Permission denied for Excel file.", None, TRUE)
StConnected(f) == Status("Connected", f, FALSE)
StCancelled == Status("Connection cancelled.", None, FALSE)
StConnectFailed == Status("Failed to connect Excel file.", None, TRUE)
StUnsupportedAppend == Status("Browser does not support direct Excel autosave.", None, TRUE)
StNotConnectedGeneric == Status("Could not update Excel file.", None, TRUE)

StNotConnected == Status("Not connected. Click Connect Excel.", None, TRUE)
StNoPermission == Status("No permission to update Excel file.", None, TRUE)
StUpdated == Status("Updated at", None, FALSE)
StAppendFailed == Status("Could not update Excel file.", None, TRUE)
StUnsupportedRestore == Status("Feature requires latest Chrome/Edge.", None, TRUE)
StRestoreNone == Status("Not connected", None, FALSE)
StReconnect == Status("Re-connect needed (permission not granted)", None, TRUE)
StUnavailable == Status("Connection unavailable. Re-connect Excel.", None, TRUE)

\* ------------------------------------------------------------------ state

VARIABLES
    window,         \* [XLSX, fsapi]: window.XLSX loaded; showSaveFilePicker and indexedDB present
    store,          \* the value under HANDLE_KEY in the handle store, or None
    perm,           \* the readwrite PermissionState of each file's handle
    content,        \* the bytes of each file
    status,         \* what #excelStatus shows
    task,           \* each async call: where it is suspended and its locals
    nAppends,       \* the calls started so far that count against MaxAppends
    origin,         \* history: the bytes each file held at the start
    appended,       \* history: per file, the entries of the appends that returned true
    lastConnected,  \* history: the file of the last connectExcelFile that returned
                    \* true, None once a later connectExcelFile has begun
    localStorage    \* the text stored under CUSTOMER_HISTORY_KEY

vars ==
    <<window, store, perm, content, status, task, nAppends, origin, appended, lastConnected,
      localStorage>>

NoEntry == [date |-> "", name |-> "", whatsapp |-> "", address |-> "", totalVolume |-> 0]

\* A call that is not running.  op is the function called from outside, fn
\* the function now executing (connectExcelFile runs inside
\* appendCustomerToExcel when autoConnect applies); pc names the await the
\* call is suspended at.  store0, content0, effects, answered and error are
\* history: the store and the files when the call began, the platform
\* operations the call has invoked, the answer its requestPermission got,
\* and the name of the error it caught.
IdleTask ==
    [pc |-> "idle", op |-> "none", fn |-> "none", handle |-> None, entry |-> NoEntry,
     options |-> FALSE, reload |-> FALSE, file |-> EmptyBytes, workbook |-> book_new,
     ret |-> "none", store0 |-> None, content0 |-> [f \in Files |-> EmptyBytes],
     effects |-> {}, answered |-> "none", error |-> "none"]

Init ==
    /\ window \in [XLSX : BOOLEAN, fsapi : BOOLEAN]
    /\ store = None
    /\ perm = [f \in Files |-> "prompt"]
    /\ content \in {c \in [Files -> OriginContents] : c[NewFile] = EmptyBytes}
    /\ status = StInitial
    /\ task = [t \in Tasks |-> IdleTask]
    /\ nAppends = 0
    /\ origin = content
    /\ appended = [f \in Files |-> <<>>]
    /\ lastConnected = None
    /\ localStorage = JSON_stringify(<<>>)

\* --------------------------------------------------- control-flow helpers

\* The call invokes a platform operation and suspends on its promise.
Call(rec, operation) ==
    [rec EXCEPT !.pc = operation, !.effects = @ \cup {operation}]

\* The outer call returns.
Done(rec, value) == [rec EXCEPT !.pc = "done", !.ret = value]

\* What a step leaves behind: the call's record, #excelStatus, lastConnected.
Out(rec, st, last) == [task |-> rec, status |-> st, last |-> last]

Apply(t, o) ==
    /\ task' = [task EXCEPT ![t] = o.task]
    /\ status' = o.status
    /\ lastConnected' = o.last

\* error.name === "AbortError"
IsAbortNever(err) == FALSE

IsAbort(err) == err = "AbortError"

\* current === "granted", and (await handle.queryPermission(...)) === "granted"
IsGranted(current) == current = "granted"

\* requested === "granted"
RequestGrantedAlways(requested) == TRUE

RequestGranted(requested) == requested = "granted"

\* tx.objectStore(HANDLE_STORE_NAME).put(handle, HANDLE_KEY): the value the
\* key holds once the transaction completes.
PutKeepsOld(old, handle) == old

Put(old, handle) == handle

\* request.result || null
Get(stored) == stored

\* Boolean(options.autoConnect)
AutoConnectAlways(options) == TRUE

AutoConnect(options) == options

\* if (!handle) in ensureReadWritePermission and hasReadWritePermission
NotHandle(handle) == handle = None

\* if (!handle) after getSavedFileHandle, in appendCustomerToExcel and
\* restoreExcelConnectionStatus
AbsentAlways(handle) == TRUE

Absent(handle) == handle = None

\* restoreExcelConnectionStatus checks with hasReadWritePermission, which
\* only queries; the other two flows use ensureReadWritePermission, which
\* goes on to requestPermission.
MayRequestAlways(fn) == TRUE

MayRequest(fn) == fn # "restore"

\* connectExcelFile returns `value` having set status `st`.  Called from
\* outside that is the call's result; inside appendCustomerToExcel the
\* append returns false on false and otherwise reloads the saved handle.
ConnectReturnIgnoresFailure(rec, value, st) ==
    IF rec.op = "append"
    THEN Out(Call([rec EXCEPT !.fn = "append", !.reload = TRUE], "getSavedFileHandle"),
             st, rec.handle)
    ELSE Out(Done(rec, IF value THEN "true" ELSE "false"), st,
             IF value THEN rec.handle ELSE lastConnected)

ConnectReturn(rec, value, st) ==
    IF rec.op = "append"
    THEN IF value
         THEN Out(Call([rec EXCEPT !.fn = "append", !.reload = TRUE], "getSavedFileHandle"),
                  st, rec.handle)
         ELSE Out(Done(rec, "false"), st, lastConnected)
    ELSE Out(Done(rec, IF value THEN "true" ELSE "false"), st,
             IF value THEN rec.handle ELSE lastConnected)

\* connectExcelFile up to its first await.
ConnectBegin(rec) ==
    IF ~window.fsapi THEN ConnectReturn(rec, FALSE, StUnsupportedConnect)
    ELSE IF ~window.XLSX THEN ConnectReturn(rec, FALSE, StNoLibrary)
    ELSE Out(Call([rec EXCEPT !.fn = "connect"], "showSaveFilePicker"), status, None)

CatchRethrows(rec, err) ==
    Out(Done([rec EXCEPT !.error = err], "throws"), status, lastConnected)

\* The catch block of the function that is executing.
Catch(rec, err) ==
    LET r == [rec EXCEPT !.error = err]
    IN  CASE rec.fn = "connect" ->
                ConnectReturn(r, FALSE, IF IsAbort(err) THEN StCancelled ELSE StConnectFailed)
          [] rec.fn = "append" -> Out(Done(r, "false"), StAppendFailed, lastConnected)
          [] OTHER -> Out(Done(r, "undefined"), StUnavailable, lastConnected)

\* The permission check has answered `ok`; the caller goes on.
PermissionReturn(rec, ok) ==
    CASE rec.fn = "connect" ->
            IF ok THEN Out(Call(rec, "saveFileHandle"), status, lastConnected)
            ELSE ConnectReturn(rec, FALSE, StConnectDenied)
      [] rec.fn = "append" ->
            IF ok THEN Out(Call(rec, "getFile"), status, lastConnected)
            ELSE Out(Done(rec, "false"), StNoPermission, lastConnected)
      [] OTHER ->
            IF ok THEN Out(Done(rec, "undefined"), StConnected(rec.handle), lastConnected)
            ELSE Out(Done(rec, "undefined"), StReconnect, lastConnected)

\* ensureReadWritePermission / hasReadWritePermission up to the first await.
PermissionBegin(rec) ==
    IF NotHandle(rec.handle) THEN PermissionReturn(rec, FALSE)
    ELSE Out(Call(rec, "queryPermission"), status, lastConnected)

\* writeWorkbookToHandle up to its first await.
WriteBegin(rec, workbook) ==
    Out(Call([rec EXCEPT !.workbook = workbook], "createWritable"), status, lastConnected)

\* The awaits a call can be suspended at.
Awaits ==
    {"showSaveFilePicker", "queryPermission", "requestPermission", "saveFileHandle",
     "getSavedFileHandle", "getFile", "arrayBuffer", "createWritable", "write", "close"}

\* No call is in flight.
Quiet == \A u \in Tasks : task[u].pc = "idle"

\* Calls made one at a time: a call starts when none is in flight, and
\* (the tasks being interchangeable) as the first task.
Serial(t) == Quiet /\ \A u \in Tasks : t <= u

Begin(op) ==
    [IdleTask EXCEPT !.op = op, !.fn = op, !.store0 = store, !.content0 = content]

\* ---------------------------------------------------------------- actions

\* The user clicks Connect: connectExcelFile() is called.
ConnectStart(t) ==
    /\ task[t].pc = "idle"
    /\ Apply(t, ConnectBegin(Begin("connect")))
    /\ UNCHANGED <<localStorage, window, store, perm, content, nAppends, origin, appended>>

\* appendCustomerToExcel up to its first await, getSavedFileHandle().
AppendBegin(rec) ==
    IF ~window.XLSX THEN Out(Done(rec, "false"), StNoLibrary, lastConnected)
    ELSE IF ~window.fsapi THEN Out(Done(rec, "false"), StUnsupportedAppend, lastConnected)
    ELSE Out(Call(rec, "getSavedFileHandle"), status, lastConnected)

\* appendCustomerToExcel(entry, options) is called.
AppendStart(t, entry, options) ==
    /\ task[t].pc = "idle"
    /\ nAppends < MaxAppends
    /\ nAppends' = nAppends + 1
    /\ Apply(t, AppendBegin([Begin("append") EXCEPT !.entry = entry, !.options = options]))
    /\ UNCHANGED <<localStorage, window, store, perm, content, origin, appended>>

SaveStartLocked(t, entry, quota) ==
    /\ Quiet
    /\ task[t].pc = "idle"
    /\ nAppends < MaxAppends
    /\ nAppends' = nAppends + 1
    /\ LET parsed == JSON_parse(localStorage)
           rec == [Begin("save") EXCEPT !.entry = entry, !.options = TRUE]
       IN  IF ~parsed.ok
           THEN /\ Apply(t, Out(Done([rec EXCEPT !.error = "SyntaxError"], "throws"),
                                status, lastConnected))
                /\ UNCHANGED localStorage
           ELSE IF quota
           THEN /\ Apply(t, Out(Done([rec EXCEPT !.error = "QuotaExceededError"], "throws"),
                                status, lastConnected))
                /\ UNCHANGED localStorage
           ELSE /\ localStorage' = JSON_stringify(<<entry>> \o getCustomerHistory(parsed.value))
                /\ Apply(t, AppendBegin([rec EXCEPT !.op = "append", !.fn = "append"]))
    /\ UNCHANGED <<window, store, perm, content, origin, appended>>

\* saveCustomerRecord(entry) is called (by saveCustomerDataOnly or
\* shareOnWhatsApp).  getCustomerHistory throws when the stored text does
\* not parse, and setItem throws when the quota is exceeded; either leaves
\* the function before appendCustomerToExcel is called and the promise of
\* saveCustomerRecord rejects.  Otherwise the entry is put first in the
\* stored history and the call continues as appendCustomerToExcel(entry,
\* {autoConnect: true}), whose result it returns.
SaveStart(t, entry, quota) ==
    /\ task[t].pc = "idle"
    /\ nAppends < MaxAppends
    /\ nAppends' = nAppends + 1
    /\ LET parsed == JSON_parse(localStorage)
           rec == [Begin("save") EXCEPT !.entry = entry, !.options = TRUE]
       IN  IF ~parsed.ok
           THEN /\ Apply(t, Out(Done([rec EXCEPT !.error = "SyntaxError"], "throws"),
                                status, lastConnected))
                /\ UNCHANGED localStorage
           ELSE IF quota
           THEN /\ Apply(t, Out(Done([rec EXCEPT !.error = "QuotaExceededError"], "throws"),
                                status, lastConnected))
                /\ UNCHANGED localStorage
           ELSE /\ localStorage' = JSON_stringify(<<entry>> \o getCustomerHistory(parsed.value))
                /\ Apply(t, AppendBegin([rec EXCEPT !.op = "append", !.fn = "append"]))
    /\ UNCHANGED <<window, store, perm, content, origin, appended>>

\* restoreExcelConnectionStatus() is called.
RestoreStart(t) ==
    /\ task[t].pc = "idle"
    /\ LET rec == Begin("restore")
       IN  Apply(t, IF ~window.fsapi
                    THEN Out(Done(rec, "undefined"), StUnsupportedRestore, lastConnected)
                    ELSE Out(Call(rec, "getSavedFileHandle"), status, lastConnected))
    /\ UNCHANGED <<localStorage, window, store, perm, content, nAppends, origin, appended>>

\* The caller has taken the result; the call is over.
Return(t) ==
    /\ task[t].pc = "done"
    /\ task' = [task EXCEPT ![t] = IdleTask]
    /\ UNCHANGED <<localStorage, window, store, perm, content, status, nAppends, origin, appended,
                   lastConnected>>

\* The awaited operation rejects with an error named err.  A rejected
\* queryPermission inside hasReadWritePermission is caught there and
\* answers false; everything else reaches the catch block of the function.
\* A rejected write or close commits nothing.
Reject(t, err) ==
    /\ task[t].pc \in Awaits
    /\ LET rec == task[t]
       IN  Apply(t, IF rec.pc = "queryPermission" /\ ~MayRequest(rec.fn)
                    THEN PermissionReturn([rec EXCEPT !.error = err], FALSE)
                    ELSE Catch(rec, err))
    /\ UNCHANGED <<localStorage, window, store, perm, content, nAppends, origin, appended>>

\* showSaveFilePicker resolves with the handle of the file the user chose;
\* choosing a file may grant readwrite on it.
PickerResolve(t, f, grants) ==
    /\ task[t].pc = "showSaveFilePicker"
    /\ perm' = IF grants THEN [perm EXCEPT ![f] = "granted"] ELSE perm
    /\ Apply(t, PermissionBegin([task[t] EXCEPT !.handle = f]))
    /\ UNCHANGED <<localStorage, window, store, content, nAppends, origin, appended>>

\* handle.queryPermission({mode: "readwrite"}) resolves.
QueryResolve(t) ==
    /\ task[t].pc = "queryPermission"
    /\ LET rec == task[t]
       IN  Apply(t, IF IsGranted(perm[rec.handle]) THEN PermissionReturn(rec, TRUE)
                    ELSE IF MayRequest(rec.fn)
                         THEN Out(Call(rec, "requestPermission"), status, lastConnected)
                         ELSE PermissionReturn(rec, FALSE))
    /\ UNCHANGED <<localStorage, window, store, perm, content, nAppends, origin, appended>>

\* handle.requestPermission({mode: "readwrite"}) resolves with the user's
\* answer: "granted" grants, "denied" or (the prompt dismissed) "prompt"
\* leaves the permission as it was, to be asked for again.
RequestResolve(t, answer) ==
    /\ task[t].pc = "requestPermission"
    /\ perm' = IF answer = "granted" THEN [perm EXCEPT ![task[t].handle] = answer] ELSE perm
    /\ Apply(t, PermissionReturn([task[t] EXCEPT !.answered = answer], RequestGranted(answer)))
    /\ UNCHANGED <<localStorage, window, store, content, nAppends, origin, appended>>

\* saveFileHandle: the readwrite transaction completes.
PutResolve(t) ==
    /\ task[t].pc = "saveFileHandle"
    /\ store' = Put(store, task[t].handle)
    /\ Apply(t, Out(Call(task[t], "getFile"), status, lastConnected))
    /\ UNCHANGED <<localStorage, window, perm, content, nAppends, origin, appended>>

\* saveFileHandle: the transaction aborts with no error event (a failed
\* commit, a connection closed under it).  The promise has handlers for
\* tx.oncomplete and tx.onerror only, so nothing settles it.
PutAbort(t) ==
    /\ task[t].pc = "saveFileHandle"
    /\ Apply(t, Out([task[t] EXCEPT !.pc = "transactionAborted"], status, lastConnected))
    /\ UNCHANGED <<localStorage, window, store, perm, content, nAppends, origin, appended>>

\* getSavedFileHandle resolves with request.result || null.
GetResolve(t) ==
    /\ task[t].pc = "getSavedFileHandle"
    /\ LET rec == [task[t] EXCEPT !.handle = Get(store)]
       IN  Apply(t, CASE rec.fn = "append" /\ ~rec.reload ->
                            IF Absent(rec.handle)
                            THEN IF AutoConnect(rec.options) THEN ConnectBegin(rec)
                                 ELSE Out(Done(rec, "false"), StNotConnected, lastConnected)
                            ELSE PermissionBegin(rec)
                      [] rec.fn = "append" /\ rec.reload -> PermissionBegin(rec)
                      [] OTHER ->
                            IF Absent(rec.handle)
                            THEN Out(Done(rec, "undefined"), StRestoreNone, lastConnected)
                            ELSE PermissionBegin(rec))
    /\ UNCHANGED <<localStorage, window, store, perm, content, nAppends, origin, appended>>

\* handle.getFile() resolves with a File: the file's bytes as they are now.
\* connectExcelFile initialises an empty file and is otherwise done;
\* appendCustomerToExcel reads a non-empty file and otherwise starts from
\* createWorkbookWithHeaders().
GetFileResolve(t) ==
    /\ task[t].pc = "getFile"
    /\ LET rec == [task[t] EXCEPT !.file = content[task[t].handle]]
       IN  Apply(t, IF rec.fn = "connect"
                    THEN IF FileSize(rec.file) = 0
                         THEN WriteBegin(rec, createWorkbookWithHeaders)
                         ELSE ConnectReturn(rec, TRUE, StConnected(rec.handle))
                    ELSE IF FileSize(rec.file) > 0
                         THEN Out(Call(rec, "arrayBuffer"), status, lastConnected)
                         ELSE WriteBegin(rec, WithEntry(createWorkbookWithHeaders, rec.entry)))
    /\ UNCHANGED <<localStorage, window, store, perm, content, nAppends, origin, appended>>

\* file.arrayBuffer() resolves; XLSX.read parses the bytes or throws, the
\* row is appended and writeWorkbookToHandle begins.
ArrayBufferResolve(t) ==
    /\ task[t].pc = "arrayBuffer"
    /\ LET rec == [task[t] EXCEPT !.effects = @ \cup {"XLSX.read"}]
           parsed == XLSX_read(rec.file)
       IN  Apply(t, IF parsed.ok THEN WriteBegin(rec, WithEntry(parsed.wb, rec.entry))
                    ELSE Catch(rec, "OtherError"))
    /\ UNCHANGED <<localStorage, window, store, perm, content, nAppends, origin, appended>>

\* handle.createWritable() resolves with a writable stream.
CreateWritableResolve(t) ==
    /\ task[t].pc = "createWritable"
    /\ Apply(t, Out(Call(task[t], "write"), status, lastConnected))
    /\ UNCHANGED <<localStorage, window, store, perm, content, nAppends, origin, appended>>

\* writable.write(data) resolves: the data is in the stream, not in the file.
WriteResolve(t) ==
    /\ task[t].pc = "write"
    /\ Apply(t, Out(Call(task[t], "close"), status, lastConnected))
    /\ UNCHANGED <<localStorage, window, store, perm, content, nAppends, origin, appended>>

\* writable.close() resolves: the file now holds the written bytes, and the
\* function that wrote reports success.
CloseResolve(t) ==
    /\ task[t].pc = "close"
    /\ LET rec == task[t]
       IN  /\ content' = [content EXCEPT ![rec.handle] = XLSX_write(rec.workbook)]
           /\ IF rec.fn = "connect"
              THEN /\ Apply(t, ConnectReturn(rec, TRUE, StConnected(rec.handle)))
                   /\ UNCHANGED appended
              ELSE /\ Apply(t, Out(Done(rec, "true"), StUpdated, lastConnected))
                   /\ appended' = [appended EXCEPT ![rec.handle] = Append(@, rec.entry)]
    /\ UNCHANGED <<localStorage, window, store, perm, nAppends, origin>>

\* The user or the browser withdraws a granted permission.
Revoke(f) ==
    /\ perm[f] = "granted"
    /\ perm' = [perm EXCEPT ![f] = "prompt"]
    /\ UNCHANGED <<localStorage, window, store, content, status, task, nAppends, origin, appended,
                   lastConnected>>

\* Calls are made one at a time: a call starts only when none is in flight.
Next ==
    \/ \E t \in Tasks : Serial(t) /\ ConnectStart(t)
    \/ \E t \in Tasks, entry \in Entries, options \in BOOLEAN :
            Serial(t) /\ AppendStart(t, entry, options)
    \/ \E t \in Tasks : Serial(t) /\ RestoreStart(t)
    \/ \E t \in Tasks : Return(t)
    \/ \E t \in Tasks, err \in ErrNames : Reject(t, err)
    \/ \E t \in Tasks, f \in Files, grants \in BOOLEAN : PickerResolve(t, f, grants)
    \/ \E t \in Tasks : QueryResolve(t)
    \/ \E t \in Tasks, answer \in PermStates : RequestResolve(t, answer)
    \/ \E t \in Tasks : PutResolve(t)
    \/ \E t \in Tasks : PutAbort(t)
    \/ \E t \in Tasks : GetResolve(t)
    \/ \E t \in Tasks : GetFileResolve(t)
    \/ \E t \in Tasks : ArrayBufferResolve(t)
    \/ \E t \in Tasks : CreateWritableResolve(t)
    \/ \E t \in Tasks : WriteResolve(t)
    \/ \E t \in Tasks : CloseResolve(t)
    \/ \E f \in Files : Revoke(f)

Spec == Init /\ [][Next]_vars

\* The page as the user drives it: the Connect button calls
\* connectExcelFile, the Save and Share buttons call saveCustomerRecord, and
\* nothing in the script holds a click back while an earlier call is
\* suspended.  The browser supports the feature, the files the picker
\* offers are new, and a granted permission stays granted.
InitCallers ==
    /\ window = [XLSX |-> TRUE, fsapi |-> TRUE]
    /\ store = None
    /\ perm = [f \in Files |-> "prompt"]
    /\ content = [f \in Files |-> EmptyBytes]
    /\ status = StInitial
    /\ task = [t \in Tasks |-> IdleTask]
    /\ nAppends = 0
    /\ origin = content
    /\ appended = [f \in Files |-> <<>>]
    /\ lastConnected = None
    /\ localStorage \in StoredHistories

\* A new call takes the first free slot.
FreeSlot(t) == \A u \in Tasks : u < t => task[u].pc # "idle"

\* The user clicks Connect.  Clicks count against the same bound as the
\* saves.
ClickConnect(t) ==
    /\ task[t].pc = "idle"
    /\ nAppends < MaxAppends
    /\ nAppends' = nAppends + 1
    /\ Apply(t, ConnectBegin(Begin("connect")))
    /\ UNCHANGED <<localStorage, window, store, perm, content, origin, appended>>

NextCallers ==
    \/ \E t \in Tasks : FreeSlot(t) /\ ClickConnect(t)
    \/ \E t \in Tasks, entry \in Entries, quota \in BOOLEAN :
            FreeSlot(t) /\ SaveStart(t, entry, quota)
    \/ \E t \in Tasks : Return(t)
    \/ \E t \in Tasks, err \in ErrNames : Reject(t, err)
    \/ \E t \in Tasks, f \in Files, grants \in BOOLEAN : PickerResolve(t, f, grants)
    \/ \E t \in Tasks : QueryResolve(t)
    \/ \E t \in Tasks, answer \in PermStates : RequestResolve(t, answer)
    \/ \E t \in Tasks : PutResolve(t)
    \/ \E t \in Tasks : PutAbort(t)
    \/ \E t \in Tasks : GetResolve(t)
    \/ \E t \in Tasks : GetFileResolve(t)
    \/ \E t \in Tasks : ArrayBufferResolve(t)
    \/ \E t \in Tasks : CreateWritableResolve(t)
    \/ \E t \in Tasks : WriteResolve(t)
    \/ \E t \in Tasks : CloseResolve(t)

SpecCallers == InitCallers /\ [][NextCallers]_vars

\* ----------------------------------------------------------------- claims

\* What the document format asks of a record's row: date, name, contact,
\* address, volume in that order, the volume as text with three decimals.
ExpectedRow(e) == <<e.date, e.name, e.whatsapp, e.address, toFixed3(e.totalVolume)>>

ExpectedRows(entries) ==
    <<EXCEL_HEADERS>> \o [i \in 1..Len(entries) |-> ExpectedRow(entries[i])]

\* The bytes are a workbook whose only sheet is CustomerData with these rows.
HoldsRows(bytes, rows) ==
    /\ bytes.kind = "xlsx"
    /\ bytes.wb.SheetNames = <<EXCEL_SHEET_NAME>>
    /\ DOMAIN bytes.wb.Sheets = {EXCEL_SHEET_NAME}
    /\ bytes.wb.Sheets[EXCEL_SHEET_NAME] = rows

\* A call that has returned and whose result has not yet been taken.
Finished(t, op) == task[t].pc = "done" /\ task[t].op = op

\* C1: with calls made one at a time, a file that started empty holds, once
\* written, exactly the header followed by the records of the appends that
\* returned true, in call order: N + 1 rows after N successful appends, and
\* nothing while it is still empty.
C1_HeaderThenAppendsInOrder ==
    \A f \in Files :
        origin[f] = EmptyBytes =>
            IF content[f] = EmptyBytes THEN appended[f] = <<>>
            ELSE /\ HoldsRows(content[f], ExpectedRows(appended[f]))
                 /\ Len(content[f].wb.Sheets[EXCEL_SHEET_NAME]) = Len(appended[f]) + 1

\* Two successful appends of different records to a file that started empty.
C1_Witness ==
    \E f \in Files :
        /\ origin[f] = EmptyBytes
        /\ Len(appended[f]) = 2
        /\ appended[f][1] # appended[f][2]
        /\ Quiet

\* C2: a successful append through a stored handle whose file had zero
\* bytes leaves the file holding exactly two rows, the fixed header and the
\* record's five fields in column order.
C2_EmptyTargetGetsHeaderAndRecord ==
    \A t \in Tasks :
        LET r == task[t]
        IN  (/\ Finished(t, "append")
             /\ r.ret = "true"
             /\ r.store0 # None
             /\ r.content0[r.store0] = EmptyBytes)
            => /\ HoldsRows(content[r.store0], <<EXCEL_HEADERS, ExpectedRow(r.entry)>>)
               /\ Len(content[r.store0].wb.Sheets[EXCEL_SHEET_NAME][2]) = 5

\* A successful append through a stored handle to a zero-byte file, the
\* permission having been granted already.
C2_Witness ==
    \E t \in Tasks :
        /\ Finished(t, "append")
        /\ task[t].ret = "true"
        /\ task[t].store0 # None
        /\ task[t].content0[task[t].store0] = EmptyBytes
        /\ "requestPermission" \notin task[t].effects

\* C3: an append that starts with a handle stored, finds the permission not
\* granted and whose elevation request is not granted returns false with
\* the no-permission status, the store and every file's bytes being what
\* they were when the call began.
C3_DeniedAppendChangesNothing ==
    \A t \in Tasks :
        LET r == task[t]
        IN  (/\ Finished(t, "append")
             /\ r.store0 # None
             /\ r.answered \in {"prompt", "denied"})
            => /\ r.ret = "false"
               /\ status = StNoPermission
               /\ store = r.store0
               /\ content = r.content0

\* After a connect that returned true, the permission was withdrawn and the
\* append's request was denied; the file holds a document.
C3_Witness ==
    \E t \in Tasks :
        /\ Finished(t, "append")
        /\ task[t].store0 # None
        /\ lastConnected = task[t].store0
        /\ task[t].answered = "denied"
        /\ content[task[t].store0].kind = "xlsx"

\* C4: an append whose target holds bytes that are no workbook returns
\* false, never calls createWritable, and leaves those bytes in the file.
C4_UndecodableTargetIsNotWritten ==
    \A t \in Tasks :
        LET r == task[t]
        IN  (/\ Finished(t, "append")
             /\ r.handle # None
             /\ r.content0[r.handle] = GarbageBytes)
            => /\ r.ret = "false"
               /\ "createWritable" \notin r.effects
               /\ content[r.handle] = GarbageBytes

\* An append that read such a target and failed on decoding it.
C4_Witness ==
    \E t \in Tasks :
        /\ Finished(t, "append")
        /\ task[t].handle # None
        /\ task[t].content0[task[t].handle] = GarbageBytes
        /\ "arrayBuffer" \in task[t].effects
        /\ task[t].file = GarbageBytes
        /\ status = StAppendFailed

\* The connect of this call (called directly or by an append with
\* autoConnect) ended because the picker rejected with AbortError: the
\* picker is the last operation the call invoked.
PickerCancelled(t) ==
    /\ task[t].pc = "done"
    /\ task[t].fn = "connect"
    /\ "showSaveFilePicker" \in task[t].effects
    /\ task[t].effects \subseteq {"getSavedFileHandle", "showSaveFilePicker"}
    /\ task[t].error = "AbortError"

\* C5: when the user cancels the picker, connect returns false with the
\* neutral 'Connection cancelled.' status and the store holds what it held
\* before, nothing if it was empty.
C5_PickerCancelKeepsStore ==
    \A t \in Tasks :
        PickerCancelled(t) =>
            /\ task[t].ret = "false"
            /\ status = StCancelled
            /\ ~status.isError
            /\ store = task[t].store0
            /\ content = task[t].content0

\* A connect cancelled in the picker while the store is empty.
C5_Witness ==
    \E t \in Tasks :
        /\ PickerCancelled(t)
        /\ task[t].op = "connect"
        /\ task[t].store0 = None
        /\ store = None

\* C6: after a connect that returned true for file F and no connect since,
\* a restoreStatus that meets no platform failure while the permission on F
\* is granted shows Connected naming F.
C6_RestoreAfterConnectShowsFile ==
    \A t \in Tasks :
        (/\ Finished(t, "restore")
         /\ lastConnected # None
         /\ perm[lastConnected] = "granted"
         /\ task[t].error = "none")
        => status = StConnected(lastConnected)

\* Such a restoreStatus, after a connect that had to ask for the permission.
C6_Witness ==
    \E t \in Tasks :
        /\ Finished(t, "restore")
        /\ lastConnected # None
        /\ perm[lastConnected] = "granted"
        /\ task[t].error = "none"
        /\ "queryPermission" \in task[t].effects
        /\ status = StConnected(lastConnected)

\* C7: a connect that fails at a step after the permission check (reading
\* the target, writing the header-only document) does not leave the newly
\* picked handle in the store.
C7_FailedConnectPersistsNoHandle ==
    \A t \in Tasks :
        LET r == task[t]
        IN  (/\ Finished(t, "connect")
             /\ r.ret = "false"
             /\ "getFile" \in r.effects
             /\ r.store0 # r.handle)
            => store # r.handle

\* C8: restoreStatus invokes nothing but the store read and the permission
\* query, changes neither the store nor any file, returns normally, and
\* shows 'Not connected' exactly when the store read found no handle,
\* Connected naming the stored file when the query answered granted, and
\* one of the two re-connect statuses otherwise.
C8_RestoreOnlySetsStatus ==
    \A t \in Tasks :
        LET r == task[t]
        IN  Finished(t, "restore") =>
                /\ r.effects \subseteq {"getSavedFileHandle", "queryPermission"}
                /\ store = r.store0
                /\ content = r.content0
                /\ r.ret = "undefined"
                /\ window.fsapi =>
                    /\ status \in {StRestoreNone, StConnected(r.store0), StReconnect,
                                   StUnavailable}
                    /\ status = StRestoreNone <=> (r.store0 = None /\ r.error = "none")
                    /\ status = StConnected(r.store0) => (r.store0 # None /\ r.error = "none")
                    /\ (r.store0 # None /\ r.error = "none" /\ perm[r.store0] = "granted")
                            => status = StConnected(r.store0)
                    /\ (r.store0 # None /\ r.error # "none")
                            => status \in {StReconnect, StUnavailable}

\* A restoreStatus that found a handle whose permission is not granted: the
\* case in which a prompting check would have asked the user.
C8_Witness ==
    \E t \in Tasks :
        /\ Finished(t, "restore")
        /\ task[t].store0 # None
        /\ perm[task[t].store0] # "granted"
        /\ task[t].error = "none"
        /\ status = StReconnect

\* C9: an append called with autoConnect false while no handle is stored
\* returns false having invoked nothing but the store read, with the store
\* still empty and every file untouched; when the store read answers (the
\* environment checks having passed) the status is the not-connected one.
C9_NotConnectedWithoutAutoConnect ==
    \A t \in Tasks :
        LET r == task[t]
        IN  (/\ Finished(t, "append")
             /\ r.store0 = None
             /\ ~r.options)
            => /\ r.ret = "false"
               /\ r.effects \subseteq {"getSavedFileHandle"}
               /\ store = None
               /\ content = r.content0
               /\ ("getSavedFileHandle" \in r.effects /\ r.error = "none")
                      => status = StNotConnected

\* Such an append, ended with the not-connected status.
C9_Witness ==
    \E t \in Tasks :
        /\ Finished(t, "append")
        /\ task[t].store0 = None
        /\ ~task[t].options
        /\ task[t].effects = {"getSavedFileHandle"}
        /\ status = StNotConnected

\* C10: an append that starts with handle H stored and returns false, at
\* whatever step it failed, leaves H in the store.
C10_FailedAppendKeepsHandle ==
    \A t \in Tasks :
        LET r == task[t]
        IN  (/\ Finished(t, "append")
             /\ r.store0 # None
             /\ r.ret = "false")
            => store = r.store0

\* An append with H stored that failed at the last step, the close of the
\* writable stream.
C10_Witness ==
    \E t \in Tasks :
        /\ Finished(t, "append")
        /\ task[t].store0 # None
        /\ task[t].ret = "false"
        /\ "close" \in task[t].effects
        /\ store = task[t].store0

\* The rows of the CustomerData sheet of a file that holds a workbook with
\* that sheet.
HasSheet(f) ==
    /\ content[f].kind = "xlsx"
    /\ EXCEL_SHEET_NAME \in DOMAIN content[f].wb.Sheets

SheetOf(f) == content[f].wb.Sheets[EXCEL_SHEET_NAME]

\* C14: in every file this program has written (an empty target, or a
\* document found without the CustomerData sheet or with that sheet empty),
\* the CustomerData sheet has the fixed header as its first row and the
\* header occurs in it exactly once.
C14_HeaderFirstExactlyOnce ==
    \A f \in Files :
        (HasSheet(f) /\ content[f] # origin[f]) =>
            /\ Len(SheetOf(f)) >= 1
            /\ SheetOf(f)[1] = EXCEL_HEADERS
            /\ Cardinality({i \in 1..Len(SheetOf(f)) : SheetOf(f)[i] = EXCEL_HEADERS}) = 1

\* Two appends to a document whose CustomerData sheet had no rows.
C14_Witness ==
    \E f \in Files :
        /\ origin[f] = XLSX_write(ZeroRowWorkbook)
        /\ Len(appended[f]) = 2
        /\ HasSheet(f)
        /\ Len(SheetOf(f)) = 3

\* C13: a call of connect or append that has ended has returned true or
\* false and left a status text; when one of its awaited operations (store,
\* picker, permission API, file read, decoder, file write) failed, the call
\* returned false and the status is one that its catch block sets.
C13_NoExceptionEscapes ==
    \A t \in Tasks :
        (Finished(t, "connect") \/ Finished(t, "append")) =>
            /\ task[t].ret \in {"true", "false"}
            /\ status.text # ""
            /\ task[t].error # None =>
                /\ task[t].ret = "false"
                /\ status \in {StCancelled, StConnectFailed, StAppendFailed}

\* The decoder threw inside an append; the call returned false.
C13_Witness ==
    \E t \in Tasks :
        /\ Finished(t, "append")
        /\ task[t].error # None
        /\ "XLSX.read" \in task[t].effects
        /\ "createWritable" \notin task[t].effects
        /\ status = StAppendFailed

\* C16: when connect has picked a target and the read-write permission was
\* not granted, connect returns false with "Permission denied for Excel
\* file.", and the handle store and every file are as they were when the
\* call began.
C16_DeniedConnectChangesNothing ==
    \A t \in Tasks :
        (/\ Finished(t, "connect")
         /\ task[t].handle # None
         /\ task[t].answered \in {"prompt", "denied"}) =>
            /\ task[t].ret = "false"
            /\ status = StConnectDenied
            /\ status.isError
            /\ store = task[t].store0
            /\ content = task[t].content0

\* A denied connect while the store holds the handle of an earlier
\* connection to another file.
C16_Witness ==
    \E t \in Tasks :
        /\ Finished(t, "connect")
        /\ task[t].answered = "denied"
        /\ task[t].store0 # None
        /\ task[t].handle # None
        /\ task[t].handle # task[t].store0

\* C17: an append with autoConnect that finds no handle stored runs connect
\* (the picker is shown).  When that connect does not return true the append
\* returns false and the target has been neither read (arrayBuffer,
\* XLSX.read) nor written; when it returns true the append goes on with the
\* handle now in the store, and a target that was empty ends up holding
\* exactly the header and the one record.
C17_AutoConnectFirst ==
    \A t \in Tasks :
        LET r == task[t]
        IN  (/\ Finished(t, "append")
             /\ r.store0 = None
             /\ r.options
             /\ "getSavedFileHandle" \in r.effects)
            => /\ r.error = None => "showSaveFilePicker" \in r.effects
               /\ ~r.reload =>
                    /\ r.ret = "false"
                    /\ content = r.content0
                    /\ r.effects \cap {"arrayBuffer", "XLSX.read"} = {}
               /\ r.reload =>
                    /\ store # None
                    /\ r.handle = store
                    /\ status.text # StCancelled.text
               /\ r.ret = "true" =>
                    /\ r.reload
                    /\ r.content0[r.handle] = EmptyBytes =>
                         HoldsRows(content[r.handle], <<EXCEL_HEADERS, ExpectedRow(r.entry)>>)

\* An auto-connecting append on a fresh target that succeeded.
C17_Witness ==
    \E t \in Tasks :
        /\ Finished(t, "append")
        /\ task[t].store0 = None
        /\ task[t].options
        /\ task[t].reload
        /\ task[t].ret = "true"
        /\ task[t].content0[task[t].handle] = EmptyBytes
        /\ Len(SheetOf(task[t].handle)) = 2

\* An append that failed in its own body (not inside the connect it ran).
FailedAppend(t) ==
    /\ Finished(t, "append")
    /\ task[t].fn = "append"
    /\ task[t].ret = "false"
    /\ "getSavedFileHandle" \in task[t].effects

\* The decoder threw: XLSX.read ran and the call went no further.
DecodeFailed(t) ==
    /\ FailedAppend(t)
    /\ task[t].error # None
    /\ "XLSX.read" \in task[t].effects
    /\ "createWritable" \notin task[t].effects

\* An awaited store, read or write operation rejected.
OperationFailed(t) ==
    /\ FailedAppend(t)
    /\ task[t].error # None
    /\ ~DecodeFailed(t)

PutPending(t) ==
    /\ task[t].pc \notin {"idle", "done"}
    /\ "saveFileHandle" \in task[t].effects
    /\ "getFile" \notin task[t].effects

\* The put settles: its promise resolves, or rejects with some error.
PutSettles(t) == PutResolve(t) \/ \E err \in ErrNames : Reject(t, err)

\* C19: a pending put can always settle, by completing or by failing with
\* an error; it is never left with no way to resolve or reject.
C19_PutAlwaysSettles ==
    \A t \in Tasks : PutPending(t) => ENABLED PutSettles(t)

\* C20: when a connect has ended with the status "Connection cancelled.",
\* the handle store and every file are as they were when the call began.
C20_CancelledMeansUntouched ==
    \A t \in Tasks :
        (/\ task[t].pc = "done"
         /\ task[t].fn = "connect"
         /\ status = StCancelled) =>
            /\ store = task[t].store0
            /\ content = task[t].content0

\* A call that has started and not yet returned.
InFlight(t) == task[t].pc \notin {"idle", "done"}

\* C11: at most one call of connect or save is in flight at any time.
C11_AtMostOneInFlight ==
    Cardinality({t \in Tasks : InFlight(t)}) <= 1

\* The customer records in the stored history.
StoredEntries ==
    LET items == getCustomerHistory(localStorage)
    IN  {items[i] : i \in 1..Len(items)}

\* C12: a save whose external append failed keeps its record in the local
\* history, and a save that failed reading or writing the local history has
\* still attempted the external append (its first step, the read of the
\* handle store, was made).
C12_LocalAndExternalIndependent ==
    \A t \in Tasks :
        /\ (Finished(t, "append") /\ task[t].ret = "false") =>
                task[t].entry \in StoredEntries
        /\ Finished(t, "save") => "getSavedFileHandle" \in task[t].effects

\* Call t has read the target and not yet written it back.
BetweenReadAndWrite(t) ==
    /\ task[t].fn = "append"
    /\ task[t].pc \in {"arrayBuffer", "createWritable", "write", "close"}

\* The rows an append has in hand after reading these bytes.
RowsRead(bytes) ==
    IF bytes.kind = "xlsx" /\ EXCEL_SHEET_NAME \in DOMAIN bytes.wb.Sheets
          /\ bytes.wb.Sheets[EXCEL_SHEET_NAME] # <<>>
    THEN bytes.wb.Sheets[EXCEL_SHEET_NAME]
    ELSE <<EXCEL_HEADERS>>

\* Two appends that both returned true after reading the same bytes of the
\* same file.
BothWroteOver(t, u) ==
    /\ t # u
    /\ Finished(t, "append") /\ task[t].ret = "true"
    /\ Finished(u, "append") /\ task[u].ret = "true"
    /\ task[t].handle = task[u].handle
    /\ task[t].file = task[u].file

\* C15: nothing holds a second save back while a first is between its read
\* and its write-back, and when two appends have both returned true after
\* reading the same bytes the file holds what was read plus the record of
\* one of them only.
C15_NoLockLostUpdate ==
    /\ \A t, u \in Tasks :
            (BetweenReadAndWrite(t) /\ task[u].pc = "idle" /\ nAppends < MaxAppends) =>
                ENABLED (\E entry \in Entries : SaveStart(u, entry, FALSE))
    /\ \A t, u \in Tasks :
            BothWroteOver(t, u) =>
                \E w \in {t, u} :
                    /\ HasSheet(task[w].handle)
                    /\ SheetOf(task[w].handle) =
                            RowsRead(task[w].file) \o <<ExpectedRow(task[w].entry)>>

\* The lost update: two appends returned true, the file holds one record.
C15_Witness ==
    \E t, u \in Tasks :
        /\ BothWroteOver(t, u)
        /\ Len(appended[task[t].handle]) = 2
        /\ Len(SheetOf(task[t].handle)) = 2

====
